---- MODULE Spec2Model ----
(***************************************************************************)
(* Model of the IO_MQTT client of adafruit_io/adafruit_io.py: feed-key     *)
(* validation, topic construction, the connection flag, the inbound        *)
(* dispatcher and the outbound publisher.  Python strings are sequences of *)
(* one-character strings; the MiniMQTT transport is the environment.       *)
(***************************************************************************)
EXTENDS Integers, Sequences, FiniteSets, TLC

VARIABLES
    _user,            \* self._user: the owner name read from the transport
    _connected,       \* self._connected
    on_connect,       \* self.on_connect   ("None" or a handler name)
    on_disconnect,    \* self.on_disconnect
    on_message,       \* self.on_message
    topic_callbacks,  \* the transport's topic -> callback table
    op,               \* the last operation called and its arguments
    raised,           \* the exception the last operation ended with
    calls,            \* transport calls and sleeps made by the last operation
    invoked,          \* user handlers invoked during the last operation
    acked,            \* the transport holds a session: it acknowledged a connect
                      \* with 0 and no disconnect or failed attempt came since
    feed_callbacks,   \* history: <<feed key, callback>> added and not removed since
    on_subscribe,     \* self.on_subscribe
    on_unsubscribe,   \* self.on_unsubscribe
    on_publish,       \* self.on_publish
    subscriptions,    \* the transport's list of subscribed topics
    removed,          \* history: feed keys whose callback was added, then removed
    phase             \* "run", or "ready"/"done" for the one-call specification

vars == <<_user, _connected, on_connect, on_disconnect, on_message,
          topic_callbacks, op, raised, calls, invoked,
          acked, feed_callbacks, on_subscribe, on_unsubscribe, on_publish,
          subscriptions, removed, phase>>

-----------------------------------------------------------------------------
(* Bounds of the model *)

\* longest feed key enumerated character by character
MaxShortKey == 3
\* most feeds in one inbound group payload
MaxFeeds == 2
\* most per-feed callbacks held by the transport at once
MaxCallbacks == 1
\* most topics in the transport's subscription list
MaxSubscriptions == 2

-----------------------------------------------------------------------------
(* Python strings *)

Letters == {"a","b","c","d","e","f","g","h","i","j","k","l","m","n","o","p",
            "q","r","s","t","u","v","w","x","y","z",
            "A","B","C","D","E","F","G","H","I","J","K","L","M","N","O","P",
            "Q","R","S","T","U","V","W","X","Y","Z"}
Digits == {"0","1","2","3","4","5","6","7","8","9"}

\* c * n
Repeat(c, n) == [i \in 1..n |-> c]

\* every string over alphabet A of length at most n
RECURSIVE StringsUpTo(_, _)
StringsUpTo(A, n) ==
    IF n = 0 THEN {<<>>}
    ELSE LET shorter == StringsUpTo(A, n - 1)
         IN  shorter \cup {s \o <<c>> : s \in shorter, c \in A}

\* s.split("/"): the segments between the slashes, empty ones included
split(s) ==
    LET slashes == {i \in 1..Len(s) : s[i] = "/"}
        n == Cardinality(slashes)
        cut(j) == CHOOSE i \in slashes : Cardinality({x \in slashes : x < i}) = j - 1
        first(j) == IF j = 1 THEN 1 ELSE cut(j - 1) + 1
        last(j) == IF j = n + 1 THEN Len(s) ELSE cut(j) - 1
    IN  [j \in 1..(n + 1) |-> SubSeq(s, first(j), last(j))]

\* str(n) for an integer n
DigitChar(d) == <<"0","1","2","3","4","5","6","7","8","9">>[d + 1]
RECURSIVE NatToStr(_)
NatToStr(n) == IF n < 10 THEN <<DigitChar(n)>>
               ELSE NatToStr(n \div 10) \o <<DigitChar(n % 10)>>
IntToStr(n) == IF n < 0 THEN <<"-">> \o NatToStr(0 - n) ELSE NatToStr(n)

\* Optional[str]
None == [some |-> FALSE, s |-> <<>>]
Some(s) == [some |-> TRUE, s |-> s]

-----------------------------------------------------------------------------
(* Python values handed to publish *)

IntVal(n) == [t |-> "int", i |-> n, f |-> <<>>, s |-> <<>>]
FloatVal(whole, frac) == [t |-> "float", i |-> whole, f |-> frac, s |-> <<>>]
StrVal(s) == [t |-> "str", i |-> 0, f |-> <<>>, s |-> s]
NoVal == [t |-> "none", i |-> 0, f |-> <<>>, s |-> <<>>]

\* str(v)
str(v) == CASE v.t = "int" -> IntToStr(v.i)
            [] v.t = "float" -> IntToStr(v.i) \o <<".">> \o v.f
            [] OTHER -> v.s

-----------------------------------------------------------------------------
(* Exceptions *)

NoError == [type |-> "None", code |-> -1, cause |-> "None", cause_code |-> -1]
Error(type) == [type |-> type, code |-> -1, cause |-> "None", cause_code |-> -1]
ErrorCode(type, code) ==
    [type |-> type, code |-> code, cause |-> "None", cause_code |-> -1]
\* raise type(...) from err
ErrorFrom(type, err) ==
    [type |-> type, code |-> -1, cause |-> err.type, cause_code |-> err.code]

-----------------------------------------------------------------------------
(* validate_feed_key *)

MaxKeyLen == 128

KeyChar(c) == c \in Letters \cup Digits \cup {"-"}
KeyWord(s) == Len(s) >= 1 /\ \A i \in 1..Len(s) : KeyChar(s[i])

\* [a-zA-Z0-9-]+((\/|\.)[a-zA-Z0-9-]+)?
KeyGrammar(s) ==
    \/ KeyWord(s)
    \/ \E i \in 2..(Len(s) - 1) :
          /\ s[i] \in {"/", "."}
          /\ KeyWord(SubSeq(s, 1, i - 1))
          /\ KeyWord(SubSeq(s, i + 1, Len(s)))

\* re.match(r"^...$", s): "$" also matches just before a final newline
re_match(s) ==
    \/ KeyGrammar(s)
    \/ /\ Len(s) >= 1
       /\ s[Len(s)] = "\n"
       /\ KeyGrammar(SubSeq(s, 1, Len(s) - 1))

\* the exception validate_feed_key raises, NoError when it returns
validate_feed_key(feed_key) ==
    IF Len(feed_key) > MaxKeyLen THEN Error("ValueError")
    ELSE IF ~re_match(feed_key) THEN Error("TypeError")
    ELSE NoError

-----------------------------------------------------------------------------
(* Topics *)

feed_topic(owner, feed_key) == owner \o <<"/", "f", "/">> \o feed_key
group_topic(owner, group_key) == owner \o <<"/", "g", "/">> \o group_key
csv_topic(owner, feed_key) == feed_topic(owner, feed_key) \o <<"/", "c", "s", "v">>
get_topic(owner, feed_key) == feed_topic(owner, feed_key) \o <<"/", "g", "e", "t">>

-----------------------------------------------------------------------------
(* The transport (self._client): every call made on it is logged *)

Call(name, topic, payload) == [op |-> name, topic |-> topic, payload |-> payload]
\* time.sleep(timeout), logged with the transport calls to keep their order
Sleep(timeout) == Call("sleep", <<>>, IntVal(timeout))

Result(err, cs) == [raised |-> err, calls |-> cs]

TransportCalls(cs) == SelectSeq(cs, LAMBDA c : c.op # "sleep")

-----------------------------------------------------------------------------
(* Outbound publisher *)

\* isinstance(data, int or float): "int or float" evaluates to int
isinstance_int_or_float(data) == data.t = "int"

\* data + "," + metadata: str + str, anything else is a TypeError
csv_string(data, metadata) ==
    IF data.t = "str" THEN Result(NoError, <<StrVal(data.s \o <<",">> \o metadata)>>)
    ELSE Result(Error("TypeError"), <<>>)

\* IO_MQTT.publish: the exception it ends with and the transport calls it made
publish(user, feed_key, data, metadata, shared_user, is_group) ==
    LET invalid == validate_feed_key(feed_key)
        grp == IF is_group
               THEN <<Call("publish", group_topic(user, feed_key), data)>>
               ELSE <<>>
        shr == IF shared_user.some
               THEN <<Call("publish", feed_topic(shared_user.s, feed_key), data)>>
               ELSE <<>>
        data2 == IF isinstance_int_or_float(data) THEN StrVal(str(data)) ELSE data
        csv == csv_string(data2, metadata.s)
    IN  IF invalid # NoError THEN Result(invalid, <<>>)
        ELSE IF metadata.some
        THEN IF csv.raised # NoError THEN Result(csv.raised, grp \o shr)
             ELSE Result(NoError, grp \o shr \o
                     <<Call("publish", csv_topic(user, feed_key), csv.calls[1])>>)
        ELSE Result(NoError, grp \o shr \o
                     <<Call("publish", feed_topic(user, feed_key), data)>>)

\* the loop of publish_multiple over feed_data
RECURSIVE publish_each(_, _, _, _)
publish_each(user, feed_data, timeout, is_group) ==
    IF feed_data = <<>> THEN Result(NoError, <<>>)
    ELSE LET one == publish(user, Head(feed_data)[1], Head(feed_data)[2],
                            None, None, is_group)
             rest == publish_each(user, Tail(feed_data), timeout, is_group)
         IN  IF one.raised # NoError THEN one
             ELSE Result(rest.raised, one.calls \o <<Sleep(timeout)>> \o rest.calls)

\* IO_MQTT.publish_multiple; feeds_and_data is [list |-> BOOLEAN, items |-> pairs]
publish_multiple(user, feeds_and_data, timeout, is_group) ==
    IF feeds_and_data.list
    THEN publish_each(user, feeds_and_data.items, timeout, is_group)
    ELSE Result(Error("AdafruitIO_MQTTError"), <<>>)

\* the character "\0"
NUL == "NUL"

\* get that also subscribes to the feed before asking for its last value
get_SubscribeFirst(user, feed_key) ==
    LET invalid == validate_feed_key(feed_key)
    IN  IF invalid # NoError THEN Result(invalid, <<>>)
        ELSE Result(NoError,
                    <<Call("subscribe", feed_topic(user, feed_key), NoVal),
                      Call("publish", get_topic(user, feed_key), StrVal(<<NUL>>))>>)

\* IO_MQTT.get
get(user, feed_key) ==
    LET invalid == validate_feed_key(feed_key)
    IN  IF invalid # NoError THEN Result(invalid, <<>>)
        ELSE Result(NoError,
                    <<Call("publish", get_topic(user, feed_key), StrVal(<<NUL>>))>>)

-----------------------------------------------------------------------------
(* Subscriptions *)

\* subscribe/unsubscribe that return silently when neither key is given
resolve_Silent(name, user, feed_key, group_key, shared_user) ==
    IF shared_user.some /\ feed_key.some
    THEN LET invalid == validate_feed_key(feed_key.s)
         IN  IF invalid # NoError THEN Result(invalid, <<>>)
             ELSE Result(NoError, <<Call(name, feed_topic(shared_user.s, feed_key.s), NoVal)>>)
    ELSE IF group_key.some
    THEN LET invalid == validate_feed_key(group_key.s)
         IN  IF invalid # NoError THEN Result(invalid, <<>>)
             ELSE Result(NoError, <<Call(name, group_topic(user, group_key.s), NoVal)>>)
    ELSE IF feed_key.some
    THEN LET invalid == validate_feed_key(feed_key.s)
         IN  IF invalid # NoError THEN Result(invalid, <<>>)
             ELSE Result(NoError, <<Call(name, feed_topic(user, feed_key.s), NoVal)>>)
    ELSE Result(NoError, <<>>)

\* the body of subscribe, name the transport call it makes
resolve(name, user, feed_key, group_key, shared_user) ==
    IF shared_user.some /\ feed_key.some
    THEN LET invalid == validate_feed_key(feed_key.s)
         IN  IF invalid # NoError THEN Result(invalid, <<>>)
             ELSE Result(NoError, <<Call(name, feed_topic(shared_user.s, feed_key.s), NoVal)>>)
    ELSE IF group_key.some
    THEN LET invalid == validate_feed_key(group_key.s)
         IN  IF invalid # NoError THEN Result(invalid, <<>>)
             ELSE Result(NoError, <<Call(name, group_topic(user, group_key.s), NoVal)>>)
    ELSE IF feed_key.some
    THEN LET invalid == validate_feed_key(feed_key.s)
         IN  IF invalid # NoError THEN Result(invalid, <<>>)
             ELSE Result(NoError, <<Call(name, feed_topic(user, feed_key.s), NoVal)>>)
    ELSE Result(Error("AdafruitIO_MQTTError"), <<>>)

\* IO_MQTT.subscribe
subscribe(user, feed_key, group_key, shared_user) ==
    resolve("subscribe", user, feed_key, group_key, shared_user)

\* unsubscribe that looks at the group key before the shared user
unsubscribe_GroupFirst(user, feed_key, group_key, shared_user) ==
    IF group_key.some
    THEN LET invalid == validate_feed_key(group_key.s)
         IN  IF invalid # NoError THEN Result(invalid, <<>>)
             ELSE Result(NoError,
                         <<Call("unsubscribe", group_topic(user, group_key.s), NoVal)>>)
    ELSE IF shared_user.some /\ feed_key.some
    THEN LET invalid == validate_feed_key(feed_key.s)
         IN  IF invalid # NoError THEN Result(invalid, <<>>)
             ELSE Result(NoError,
                         <<Call("unsubscribe", feed_topic(shared_user.s, feed_key.s),
                                NoVal)>>)
    ELSE IF feed_key.some
    THEN LET invalid == validate_feed_key(feed_key.s)
         IN  IF invalid # NoError THEN Result(invalid, <<>>)
             ELSE Result(NoError,
                         <<Call("unsubscribe", feed_topic(user, feed_key.s), NoVal)>>)
    ELSE Result(Error("AdafruitIO_MQTTError"), <<>>)

\* IO_MQTT.unsubscribe
unsubscribe(user, feed_key, group_key, shared_user) ==
    IF shared_user.some /\ feed_key.some
    THEN LET invalid == validate_feed_key(feed_key.s)
         IN  IF invalid # NoError THEN Result(invalid, <<>>)
             ELSE Result(NoError,
                         <<Call("unsubscribe", feed_topic(shared_user.s, feed_key.s),
                                NoVal)>>)
    ELSE IF group_key.some
    THEN LET invalid == validate_feed_key(group_key.s)
         IN  IF invalid # NoError THEN Result(invalid, <<>>)
             ELSE Result(NoError,
                         <<Call("unsubscribe", group_topic(user, group_key.s), NoVal)>>)
    ELSE IF feed_key.some
    THEN LET invalid == validate_feed_key(feed_key.s)
         IN  IF invalid # NoError THEN Result(invalid, <<>>)
             ELSE Result(NoError,
                         <<Call("unsubscribe", feed_topic(user, feed_key.s), NoVal)>>)
    ELSE Result(Error("AdafruitIO_MQTTError"), <<>>)

S_errors == <<"e", "r", "r", "o", "r", "s">>

\* IO_MQTT.subscribe_to_errors
subscribe_to_errors(user) ==
    Result(NoError, <<Call("subscribe", user \o <<"/">> \o S_errors, NoVal)>>)

S_iso == <<"i", "s", "o">>
S_seconds == <<"s", "e", "c", "o", "n", "d", "s">>
S_millis == <<"m", "i", "l", "l", "i", "s">>
S_time_slash == <<"t", "i", "m", "e", "/">>

\* subscribe_to_time without the special case: "iso" becomes "time/iso"
subscribe_to_time_NoSpecialCase(time_type) ==
    Result(NoError, <<Call("subscribe", S_time_slash \o time_type, NoVal)>>)

\* IO_MQTT.subscribe_to_time
subscribe_to_time(time_type) ==
    IF time_type = S_iso
    THEN Result(NoError,
                <<Call("subscribe",
                       <<"t", "i", "m", "e", "/", "I", "S", "O", "-", "8", "6", "0", "1">>,
                       NoVal)>>)
    ELSE Result(NoError, <<Call("subscribe", S_time_slash \o time_type, NoVal)>>)

-----------------------------------------------------------------------------
(* Inbound payloads.  A payload is the text of a JSON document, given by    *)
(* the document it denotes, or text that is no JSON ("raw").               *)

Raw(s) == [k |-> "raw", n |-> 0, s |-> s, o |-> <<>>]
JNum(n) == [k |-> "num", n |-> n, s |-> <<>>, o |-> <<>>]
JStr(s) == [k |-> "str", n |-> 0, s |-> s, o |-> <<>>]
\* members: a sequence of <<name, value>> in the order of the text
JObj(members) == [k |-> "obj", n |-> 0, s |-> <<>>, o |-> members]

Value(v) == [raised |-> NoError, value |-> v]
Raise(type) == [raised |-> Error(type), value |-> JNum(0)]

\* json.loads(payload)
json_loads(payload) ==
    IF payload.k = "raw" THEN Raise("ValueError") ELSE Value(payload)

\* v[key] for a string key
getitem(v, key) ==
    IF v.k = "obj"
    THEN IF \E i \in 1..Len(v.o) : v.o[i][1] = key
         THEN Value(v.o[CHOOSE i \in 1..Len(v.o) : v.o[i][1] = key][2])
         ELSE Raise("KeyError")
    ELSE Raise("TypeError")

\* the items "for x in v" yields
iterate(v) ==
    CASE v.k = "obj" -> [raised |-> NoError, items |-> [i \in 1..Len(v.o) |-> v.o[i][1]]]
      [] v.k = "str" -> [raised |-> NoError, items |-> [i \in 1..Len(v.s) |-> <<v.s[i]>>]]
      [] OTHER -> [raised |-> Error("TypeError"), items |-> <<>>]

S_feeds == <<"f", "e", "e", "d", "s">>
S_groups == <<"g", "r", "o", "u", "p", "s">>
S_throttle == <<"t", "h", "r", "o", "t", "t", "l", "e">>
S_time == <<"t", "i", "m", "e">>

\* for msg in feeds: payload = payload["feeds"][msg]; messages.append(payload)
RECURSIVE group_messages(_, _)
group_messages(payload, feeds) ==
    IF feeds = <<>> THEN [raised |-> NoError, messages |-> <<>>]
    ELSE LET inner == getitem(payload, S_feeds)
             item == getitem(inner.value, Head(feeds))
             rest == group_messages(item.value, Tail(feeds))
         IN  IF inner.raised # NoError THEN [raised |-> inner.raised, messages |-> <<>>]
             ELSE IF item.raised # NoError THEN [raised |-> item.raised, messages |-> <<>>]
             ELSE [raised |-> rest.raised, messages |-> <<item.value>> \o rest.messages]

-----------------------------------------------------------------------------
(* User handlers: an invocation records the handler and its arguments *)

\* handler(client, topic, payload) with a string and a payload
Invoke(handler, client, topic, payload) ==
    [handler |-> handler, client |-> client, shape |-> "scalar",
     topic |-> topic, payload |-> payload, topics |-> <<>>, payloads |-> <<>>]
\* handler(client, feeds, messages) with two lists
InvokeLists(handler, client, topics, payloads) ==
    [handler |-> handler, client |-> client, shape |-> "lists",
     topic |-> <<>>, payload |-> JNum(0), topics |-> topics, payloads |-> payloads]
\* handler(client)
InvokeClient(handler, client) ==
    [handler |-> handler, client |-> client, shape |-> "client",
     topic |-> <<>>, payload |-> JNum(0), topics |-> <<>>, payloads |-> <<>>]

Outcome(err, inv) == [raised |-> err, invoked |-> inv]

\* raise AdafruitIO_ThrottleError(payload): __init__(self) takes no argument,
\* so building the exception with one is itself a TypeError
ThrottleErrorArgs == 0
new_ThrottleError(nargs) ==
    IF nargs = ThrottleErrorArgs THEN Error("AdafruitIO_ThrottleError")
    ELSE Error("TypeError")

\* the group branch of _on_message_mqtt
on_group_message(handler, payload) ==
    LET doc == json_loads(payload)
        inner == getitem(doc.value, S_feeds)
        feeds == iterate(inner.value)
        msgs == group_messages(doc.value, feeds.items)
    IN  IF doc.raised # NoError THEN Outcome(doc.raised, <<>>)
        ELSE IF inner.raised # NoError THEN Outcome(inner.raised, <<>>)
        ELSE IF feeds.raised # NoError THEN Outcome(feeds.raised, <<>>)
        ELSE IF msgs.raised # NoError THEN Outcome(msgs.raised, <<>>)
        ELSE Outcome(NoError,
                     <<InvokeLists(handler, "IO_MQTT", feeds.items, msgs.messages)>>)

\* _on_message_mqtt with its checks reordered: the topic is classified before
\* the handler slot is looked at, so a throttle notice wins over the missing handler
_on_message_mqtt_ClassifyFirst(handler, topic, payload) ==
    LET topic_name == split(topic)
    IN  IF Len(topic_name) < 2 THEN Outcome(Error("IndexError"), <<>>)
        ELSE IF topic_name[2] = S_throttle THEN Outcome(new_ThrottleError(1), <<>>)
        ELSE IF handler = "None" THEN Outcome(Error("ValueError"), <<>>)
        ELSE IF topic_name[2] = S_groups THEN on_group_message(handler, payload)
        ELSE IF topic_name[1] = S_time
        THEN Outcome(NoError, <<Invoke(handler, "IO_MQTT", topic_name[2], payload)>>)
        ELSE IF Len(topic_name) < 3 THEN Outcome(Error("IndexError"), <<>>)
        ELSE Outcome(NoError, <<Invoke(handler, "IO_MQTT", topic_name[3], payload)>>)

\* IO_MQTT._on_message_mqtt(client, topic, payload), handler is self.on_message
_on_message_mqtt(handler, topic, payload) ==
    LET topic_name == split(topic)
    IN  IF handler = "None" THEN Outcome(Error("ValueError"), <<>>)
        ELSE IF Len(topic_name) < 2 THEN Outcome(Error("IndexError"), <<>>)
        ELSE IF topic_name[2] = S_groups THEN on_group_message(handler, payload)
        ELSE IF topic_name[2] = S_throttle THEN Outcome(new_ThrottleError(1), <<>>)
        ELSE IF topic_name[1] = S_time
        THEN Outcome(NoError, <<Invoke(handler, "IO_MQTT", topic_name[2], payload)>>)
        ELSE IF Len(topic_name) < 3 THEN Outcome(Error("IndexError"), <<>>)
        ELSE Outcome(NoError, <<Invoke(handler, "IO_MQTT", topic_name[3], payload)>>)

\* the callbacks table is a set of <<topic, callback>> with one entry per topic
Registered(callbacks, topic) == \E e \in callbacks : e[1] = topic
CallbackFor(callbacks, topic) == (CHOOSE e \in callbacks : e[1] = topic)[2]

\* the transport hands an inbound message to the callback registered for its
\* topic, with its own arguments, and otherwise to its on_message slot
transport_deliver(callbacks, handler, topic, payload) ==
    IF Registered(callbacks, topic)
    THEN Outcome(NoError,
                 <<Invoke(CallbackFor(callbacks, topic), "MQTT", topic, payload)>>)
    ELSE _on_message_mqtt(handler, topic, payload)

-----------------------------------------------------------------------------
(* Connection acknowledgements *)

\* a handler of the caller that raises when it is invoked
HandlerRaises(handler) ==
    IF handler = "failing" THEN Error("RuntimeError") ELSE NoError

\* _on_connect_mqtt that runs the handler before it looks at the return code
_on_connect_mqtt_HandlerFirst(flag, handler, return_code) ==
    LET inv == IF handler # "None" THEN <<InvokeClient(handler, "IO_MQTT")>> ELSE <<>>
    IN  IF handler # "None" /\ HandlerRaises(handler) # NoError
        THEN [connected |-> flag, raised |-> HandlerRaises(handler), invoked |-> inv]
        ELSE IF return_code = 0
        THEN [connected |-> TRUE, raised |-> NoError, invoked |-> inv]
        ELSE [connected |-> flag,
              raised |-> ErrorCode("AdafruitIO_MQTTError", return_code),
              invoked |-> inv]

\* IO_MQTT._on_connect_mqtt: the flag afterwards, the exception, the handlers run
_on_connect_mqtt(flag, handler, return_code) ==
    IF return_code = 0
    THEN [connected |-> TRUE,
          raised |-> IF handler # "None" THEN HandlerRaises(handler) ELSE NoError,
          invoked |-> IF handler # "None"
                      THEN <<InvokeClient(handler, "IO_MQTT")>> ELSE <<>>]
    ELSE [connected |-> flag,
          raised |-> ErrorCode("AdafruitIO_MQTTError", return_code),
          invoked |-> <<>>]

\* _on_disconnect_mqtt that clears the flag only for return code 0
_on_disconnect_mqtt_OnlyOnZero(flag, handler, return_code) ==
    [connected |-> IF return_code = 0 THEN FALSE ELSE flag,
     raised |-> IF handler # "None" THEN HandlerRaises(handler) ELSE NoError,
     invoked |-> IF handler # "None"
                 THEN <<InvokeClient(handler, "IO_MQTT")>> ELSE <<>>]

\* IO_MQTT._on_disconnect_mqtt
_on_disconnect_mqtt(flag, handler, return_code) ==
    [connected |-> FALSE,
     raised |-> IF handler # "None" THEN HandlerRaises(handler) ELSE NoError,
     invoked |-> IF handler # "None"
                 THEN <<InvokeClient(handler, "IO_MQTT")>> ELSE <<>>]

-----------------------------------------------------------------------------
(* Publish, subscribe and unsubscribe events of the transport *)

\* handler(client, user_data, topic, pid or qos)
InvokeEvent(handler, client, user_data, topic, number) ==
    [handler |-> handler, client |-> client, shape |-> "event",
     user_data |-> user_data, topic |-> topic, number |-> number]

\* IO_MQTT._on_publish_mqtt(client, user_data, topic, pid), handler is self.on_publish
_on_publish_mqtt(handler, user_data, topic, pid) ==
    IF handler # "None"
    THEN <<InvokeEvent(handler, "IO_MQTT", user_data, topic, pid)>> ELSE <<>>

\* _on_subscribe_mqtt that looks at the on_publish slot
_on_subscribe_mqtt_PublishSlot(handler, user_data, topic, qos) ==
    IF on_publish # "None"
    THEN <<InvokeEvent(on_publish, "IO_MQTT", user_data, topic, qos)>> ELSE <<>>

\* IO_MQTT._on_subscribe_mqtt(client, user_data, topic, qos)
_on_subscribe_mqtt(handler, user_data, topic, qos) ==
    IF handler # "None"
    THEN <<InvokeEvent(handler, "IO_MQTT", user_data, topic, qos)>> ELSE <<>>

\* IO_MQTT._on_unsubscribe_mqtt(client, user_data, topic, pid)
_on_unsubscribe_mqtt(handler, user_data, topic, pid) ==
    IF handler # "None"
    THEN <<InvokeEvent(handler, "IO_MQTT", user_data, topic, pid)>> ELSE <<>>

\* the user_data the transport was built with
UserData == "user_data"

\* the event the transport raises for one of its calls, pid its packet id
transport_event(c, pid) ==
    CASE c.op = "publish" -> _on_publish_mqtt(on_publish, UserData, c.topic, pid)
      [] c.op = "subscribe" -> _on_subscribe_mqtt(on_subscribe, UserData, c.topic, 0)
      [] c.op = "unsubscribe" ->
           _on_unsubscribe_mqtt(on_unsubscribe, UserData, c.topic, pid)
      [] OTHER -> <<>>

\* the handlers run by the events of the calls cs, in the order of the calls
RECURSIVE transport_events(_, _)
transport_events(cs, pid) ==
    IF cs = <<>> THEN <<>>
    ELSE transport_event(Head(cs), pid) \o transport_events(Tail(cs), pid + 1)

\* list.remove(t) on the transport's list of subscribed topics, if t is in it
remove_topic(list, t) ==
    IF \E i \in 1..Len(list) : list[i] = t
    THEN LET i == CHOOSE i \in 1..Len(list) :
                     list[i] = t /\ \A j \in 1..(i - 1) : list[j] # t
         IN  SubSeq(list, 1, i - 1) \o SubSeq(list, i + 1, Len(list))
    ELSE list

\* the transport's list of subscribed topics after the calls cs
RECURSIVE subscribed_after(_, _)
subscribed_after(list, cs) ==
    IF cs = <<>> THEN list
    ELSE subscribed_after(
             CASE Head(cs).op = "subscribe" -> Append(list, Head(cs).topic)
               [] Head(cs).op = "unsubscribe" -> remove_topic(list, Head(cs).topic)
               [] OTHER -> list,
             Tail(cs))

-----------------------------------------------------------------------------
(* Actions: one per call on the client or event of the transport *)

\* a call is one step; the one-call specification stops after it
Step == /\ phase # "done"
        /\ phase' = IF phase = "ready" THEN "done" ELSE phase

\* what the transport does with connect()/reconnect(): raise before any
\* acknowledgement, or deliver the acknowledgement with a return code
Refused(type) == [ack |-> FALSE, rc |-> -1, exc |-> type]
Acked(rc) == [ack |-> TRUE, rc |-> rc, exc |-> "None"]

\* connect/reconnect without the try: the exception of the transport reaches
\* the caller as it is
Attempt_Unwrapped(name, outcome) ==
    LET ack == _on_connect_mqtt(_connected, on_connect, outcome.rc)
    IN  /\ Step
        /\ op' = [name |-> name, ack |-> outcome.ack, rc |-> outcome.rc,
                  exc |-> outcome.exc, was_connected |-> _connected]
        /\ calls' = <<Call(name, <<>>, NoVal)>>
        /\ IF outcome.ack
           THEN /\ _connected' = ack.connected
                /\ invoked' = ack.invoked
                /\ raised' = ack.raised
                /\ acked' = (outcome.rc = 0)
           ELSE /\ _connected' = _connected
                /\ invoked' = <<>>
                /\ raised' = Error(outcome.exc)
                /\ acked' = FALSE
        /\ UNCHANGED <<_user, on_connect, on_disconnect, on_message, topic_callbacks,
                       feed_callbacks>>
        /\ UNCHANGED <<on_subscribe, on_unsubscribe, on_publish, subscriptions, removed>>

\* connect/reconnect that clear the flag themselves when the transport raises
Attempt_ClearsOnFailure(name, outcome) ==
    LET ack == _on_connect_mqtt(_connected, on_connect, outcome.rc)
    IN  /\ Step
        /\ op' = [name |-> name, ack |-> outcome.ack, rc |-> outcome.rc,
                  exc |-> outcome.exc, was_connected |-> _connected]
        /\ calls' = <<Call(name, <<>>, NoVal)>>
        /\ IF outcome.ack
           THEN /\ _connected' = ack.connected
                /\ invoked' = ack.invoked
                /\ raised' = IF ack.raised = NoError THEN NoError
                             ELSE ErrorFrom("AdafruitIO_MQTTError", ack.raised)
                /\ acked' = (outcome.rc = 0)
           ELSE /\ _connected' = FALSE
                /\ invoked' = <<>>
                /\ raised' = ErrorFrom("AdafruitIO_MQTTError", Error(outcome.exc))
                /\ acked' = FALSE
        /\ UNCHANGED <<_user, on_connect, on_disconnect, on_message, topic_callbacks,
                       feed_callbacks>>
        /\ UNCHANGED <<on_subscribe, on_unsubscribe, on_publish, subscriptions, removed>>

\* try: self._client.<name>() except Exception as err: raise AdafruitIO_MQTTError from err
Attempt(name, outcome) ==
    LET ack == _on_connect_mqtt(_connected, on_connect, outcome.rc)
    IN  /\ Step
        /\ op' = [name |-> name, ack |-> outcome.ack, rc |-> outcome.rc,
                  exc |-> outcome.exc, was_connected |-> _connected]
        /\ calls' = <<Call(name, <<>>, NoVal)>>
        /\ IF outcome.ack
           THEN /\ _connected' = ack.connected
                /\ invoked' = ack.invoked
                /\ raised' = IF ack.raised = NoError THEN NoError
                             ELSE ErrorFrom("AdafruitIO_MQTTError", ack.raised)
                /\ acked' = (outcome.rc = 0)
           ELSE /\ _connected' = _connected
                /\ invoked' = <<>>
                /\ raised' = ErrorFrom("AdafruitIO_MQTTError", Error(outcome.exc))
                /\ acked' = FALSE
        /\ UNCHANGED <<_user, on_connect, on_disconnect, on_message, topic_callbacks,
                       feed_callbacks>>
        /\ UNCHANGED <<on_subscribe, on_unsubscribe, on_publish, subscriptions, removed>>

\* IO_MQTT.connect
Connect(outcome) == Attempt("connect", outcome)

\* IO_MQTT.reconnect
Reconnect(outcome) == Attempt("reconnect", outcome)

\* disconnect without its guard: the transport is called whatever the flag says
Disconnect_Unguarded(acknowledged) ==
    LET ack == _on_disconnect_mqtt(_connected, on_disconnect, 0)
    IN  /\ Step
        /\ op' = [name |-> "disconnect", was_connected |-> _connected,
                  acknowledged |-> acknowledged]
        /\ calls' = <<Call("disconnect", <<>>, NoVal)>>
        /\ IF acknowledged
           THEN /\ _connected' = ack.connected
                /\ invoked' = ack.invoked
                /\ raised' = ack.raised
                /\ acked' = FALSE
           ELSE /\ raised' = Error("MMQTTException")
                /\ invoked' = <<>>
                /\ UNCHANGED <<_connected, acked>>
        /\ UNCHANGED <<_user, on_connect, on_disconnect, on_message, topic_callbacks,
                       feed_callbacks>>
        /\ UNCHANGED <<on_subscribe, on_unsubscribe, on_publish, subscriptions, removed>>

\* IO_MQTT.disconnect; the transport acknowledges the disconnect or raises
Disconnect(acknowledged) ==
    LET ack == _on_disconnect_mqtt(_connected, on_disconnect, 0)
    IN  /\ Step
        /\ op' = [name |-> "disconnect", was_connected |-> _connected,
                  acknowledged |-> _connected /\ acknowledged]
        /\ IF _connected
           THEN /\ calls' = <<Call("disconnect", <<>>, NoVal)>>
                /\ IF acknowledged
                   THEN /\ _connected' = ack.connected
                        /\ invoked' = ack.invoked
                        /\ raised' = ack.raised
                        /\ acked' = FALSE
                   ELSE /\ raised' = Error("MMQTTException")
                        /\ invoked' = <<>>
                        /\ UNCHANGED <<_connected, acked>>
           ELSE /\ calls' = <<>>
                /\ invoked' = <<>>
                /\ raised' = NoError
                /\ UNCHANGED <<_connected, acked>>
        /\ UNCHANGED <<_user, on_connect, on_disconnect, on_message, topic_callbacks,
                       feed_callbacks>>
        /\ UNCHANGED <<on_subscribe, on_unsubscribe, on_publish, subscriptions, removed>>

\* IO_MQTT.is_connected: what the property returns and raises when the
\* transport answers with its session state or raises the named exception
is_connected(session, outcome) ==
    IF outcome = "answers" THEN [raised |-> NoError, returned |-> session]
    ELSE IF outcome = "MMQTTException" THEN [raised |-> NoError, returned |-> FALSE]
    ELSE [raised |-> Error(outcome), returned |-> FALSE]

\* the caller reads io.is_connected
IsConnected(outcome) ==
    LET result == is_connected(acked, outcome)
    IN  /\ Step
        /\ op' = [name |-> "is_connected", outcome |-> outcome,
                  returned |-> result.returned]
        /\ calls' = <<Call("is_connected", <<>>, NoVal)>>
        /\ raised' = result.raised
        /\ invoked' = <<>>
        /\ UNCHANGED <<_user, _connected, on_connect, on_disconnect, on_message,
                       topic_callbacks, acked, feed_callbacks>>
        /\ UNCHANGED <<on_subscribe, on_unsubscribe, on_publish, subscriptions, removed>>

\* IO_MQTT.loop while the transport receives one message
LoopMessage(topic, payload) ==
    LET out == transport_deliver(topic_callbacks, on_message, topic, payload)
    IN  /\ Step
        /\ op' = [name |-> "loop", event |-> "message", topic |-> topic,
                  payload |-> payload]
        /\ calls' = <<Call("loop", <<>>, NoVal)>>
        /\ raised' = out.raised
        /\ invoked' = out.invoked
        /\ UNCHANGED <<_user, _connected, on_connect, on_disconnect, on_message,
                       topic_callbacks, acked, feed_callbacks>>
        /\ UNCHANGED <<on_subscribe, on_unsubscribe, on_publish, subscriptions, removed>>

\* IO_MQTT.loop while the transport reports the end of the session
LoopDisconnect(return_code) ==
    LET ack == _on_disconnect_mqtt(_connected, on_disconnect, return_code)
    IN  /\ Step
        /\ op' = [name |-> "loop", event |-> "disconnect", rc |-> return_code]
        /\ calls' = <<Call("loop", <<>>, NoVal)>>
        /\ _connected' = ack.connected
        /\ raised' = ack.raised
        /\ invoked' = ack.invoked
        /\ acked' = FALSE
        /\ UNCHANGED <<_user, on_connect, on_disconnect, on_message, topic_callbacks,
                       feed_callbacks>>
        /\ UNCHANGED <<on_subscribe, on_unsubscribe, on_publish, subscriptions, removed>>

\* IO_MQTT.loop while the transport raises (an I/O failure)
LoopError ==
    /\ Step
    /\ op' = [name |-> "loop", event |-> "error"]
    /\ calls' = <<Call("loop", <<>>, NoVal)>>
    /\ raised' = Error("MMQTTException")
    /\ invoked' = <<>>
    /\ UNCHANGED <<_user, _connected, on_connect, on_disconnect, on_message,
                   topic_callbacks, acked, feed_callbacks>>
    /\ UNCHANGED <<on_subscribe, on_unsubscribe, on_publish, subscriptions, removed>>

\* the caller assigns io.on_connect, io.on_disconnect, io.on_message
Assigned(slot, handler) ==
    /\ Step
    /\ op' = [name |-> "assign", slot |-> slot, handler |-> handler]
    /\ calls' = <<>>
    /\ raised' = NoError
    /\ invoked' = <<>>
    /\ UNCHANGED <<_user, _connected, topic_callbacks, acked, feed_callbacks>>
    /\ UNCHANGED <<subscriptions, removed>>

SetOnConnect(handler) ==
    /\ Assigned("on_connect", handler)
    /\ on_connect' = handler
    /\ UNCHANGED <<on_disconnect, on_message, on_subscribe, on_unsubscribe, on_publish>>

SetOnDisconnect(handler) ==
    /\ Assigned("on_disconnect", handler)
    /\ on_disconnect' = handler
    /\ UNCHANGED <<on_connect, on_message, on_subscribe, on_unsubscribe, on_publish>>

SetOnMessage(handler) ==
    /\ Assigned("on_message", handler)
    /\ on_message' = handler
    /\ UNCHANGED <<on_connect, on_disconnect, on_subscribe, on_unsubscribe, on_publish>>

SetOnSubscribe(handler) ==
    /\ Assigned("on_subscribe", handler)
    /\ on_subscribe' = handler
    /\ UNCHANGED <<on_connect, on_disconnect, on_message, on_unsubscribe, on_publish>>

SetOnUnsubscribe(handler) ==
    /\ Assigned("on_unsubscribe", handler)
    /\ on_unsubscribe' = handler
    /\ UNCHANGED <<on_connect, on_disconnect, on_message, on_subscribe, on_publish>>

SetOnPublish(handler) ==
    /\ Assigned("on_publish", handler)
    /\ on_publish' = handler
    /\ UNCHANGED <<on_connect, on_disconnect, on_message, on_subscribe, on_unsubscribe>>

\* add_feed_callback with the wrong prefix: the callback is registered on the
\* group topic
AddFeedCallback_GroupTopic(feed_key, callback_method) ==
    LET invalid == validate_feed_key(feed_key)
        topic == group_topic(_user, feed_key)
    IN  /\ Step
        /\ op' = [name |-> "add_feed_callback", feed_key |-> feed_key,
                  callback |-> callback_method]
        /\ invoked' = <<>>
        /\ raised' = invalid
        /\ IF invalid # NoError
           THEN /\ calls' = <<>>
                /\ UNCHANGED <<topic_callbacks, feed_callbacks, removed>>
           ELSE /\ \/ Registered(topic_callbacks, topic)
                   \/ Cardinality(topic_callbacks) < MaxCallbacks
                /\ calls' = <<Call("add_topic_callback", topic, NoVal)>>
                /\ topic_callbacks' = {e \in topic_callbacks : e[1] # topic}
                                         \cup {<<topic, callback_method>>}
                /\ feed_callbacks' = {e \in feed_callbacks : e[1] # feed_key}
                                        \cup {<<feed_key, callback_method>>}
                /\ removed' = removed \ {feed_key}
        /\ UNCHANGED <<_user, _connected, on_connect, on_disconnect, on_message, acked>>
        /\ UNCHANGED <<on_subscribe, on_unsubscribe, on_publish, subscriptions>>

\* add_feed_callback that also subscribes to the topic of the key
AddFeedCallback_Subscribes(feed_key, callback_method) ==
    LET invalid == validate_feed_key(feed_key)
        topic == feed_topic(_user, feed_key)
    IN  /\ Step
        /\ op' = [name |-> "add_feed_callback", feed_key |-> feed_key,
                  callback |-> callback_method]
        /\ invoked' = <<>>
        /\ raised' = invalid
        /\ IF invalid # NoError
           THEN /\ calls' = <<>>
                /\ UNCHANGED <<topic_callbacks, feed_callbacks, removed, subscriptions>>
           ELSE /\ \/ Registered(topic_callbacks, topic)
                   \/ Cardinality(topic_callbacks) < MaxCallbacks
                /\ calls' = <<Call("add_topic_callback", topic, NoVal),
                              Call("subscribe", topic, NoVal)>>
                /\ Len(subscriptions) < MaxSubscriptions
                /\ subscriptions' = IF invalid # NoError THEN subscriptions
                                    ELSE Append(subscriptions, topic)
                /\ topic_callbacks' = {e \in topic_callbacks : e[1] # topic}
                                         \cup {<<topic, callback_method>>}
                /\ feed_callbacks' = {e \in feed_callbacks : e[1] # feed_key}
                                        \cup {<<feed_key, callback_method>>}
                /\ removed' = removed \ {feed_key}
        /\ UNCHANGED <<_user, _connected, on_connect, on_disconnect, on_message, acked>>
        /\ UNCHANGED <<on_subscribe, on_unsubscribe, on_publish>>

\* IO_MQTT.add_feed_callback
AddFeedCallback(feed_key, callback_method) ==
    LET invalid == validate_feed_key(feed_key)
        topic == feed_topic(_user, feed_key)
    IN  /\ Step
        /\ op' = [name |-> "add_feed_callback", feed_key |-> feed_key,
                  callback |-> callback_method]
        /\ invoked' = <<>>
        /\ raised' = invalid
        /\ IF invalid # NoError
           THEN /\ calls' = <<>>
                /\ UNCHANGED <<topic_callbacks, feed_callbacks, removed>>
           ELSE /\ \/ Registered(topic_callbacks, topic)
                   \/ Cardinality(topic_callbacks) < MaxCallbacks
                /\ calls' = <<Call("add_topic_callback", topic, NoVal)>>
                /\ topic_callbacks' = {e \in topic_callbacks : e[1] # topic}
                                         \cup {<<topic, callback_method>>}
                /\ feed_callbacks' = {e \in feed_callbacks : e[1] # feed_key}
                                        \cup {<<feed_key, callback_method>>}
                /\ removed' = removed \ {feed_key}
        /\ UNCHANGED <<_user, _connected, on_connect, on_disconnect, on_message, acked>>
        /\ UNCHANGED <<on_subscribe, on_unsubscribe, on_publish, subscriptions>>

\* remove_feed_callback that builds the group topic of the key
RemoveFeedCallback_GroupTopic(feed_key) ==
    LET invalid == validate_feed_key(feed_key)
        topic == group_topic(_user, feed_key)
    IN  /\ Step
        /\ op' = [name |-> "remove_feed_callback", feed_key |-> feed_key]
        /\ invoked' = <<>>
        /\ IF invalid # NoError
           THEN /\ calls' = <<>>
                /\ raised' = invalid
                /\ UNCHANGED <<topic_callbacks, feed_callbacks, removed>>
           ELSE /\ calls' = <<Call("remove_topic_callback", topic, NoVal)>>
                /\ raised' = IF Registered(topic_callbacks, topic) THEN NoError
                             ELSE Error("KeyError")
                /\ topic_callbacks' = {e \in topic_callbacks : e[1] # topic}
                /\ feed_callbacks' = {e \in feed_callbacks : e[1] # feed_key}
                /\ removed' = IF \E e \in feed_callbacks : e[1] = feed_key
                              THEN removed \cup {feed_key} ELSE removed
        /\ UNCHANGED <<_user, _connected, on_connect, on_disconnect, on_message, acked>>
        /\ UNCHANGED <<on_subscribe, on_unsubscribe, on_publish, subscriptions>>

\* IO_MQTT.remove_feed_callback
RemoveFeedCallback(feed_key) ==
    LET invalid == validate_feed_key(feed_key)
        topic == feed_topic(_user, feed_key)
    IN  /\ Step
        /\ op' = [name |-> "remove_feed_callback", feed_key |-> feed_key]
        /\ invoked' = <<>>
        /\ IF invalid # NoError
           THEN /\ calls' = <<>>
                /\ raised' = invalid
                /\ UNCHANGED <<topic_callbacks, feed_callbacks, removed>>
           ELSE /\ calls' = <<Call("remove_topic_callback", topic, NoVal)>>
                /\ raised' = IF Registered(topic_callbacks, topic) THEN NoError
                             ELSE Error("KeyError")
                /\ topic_callbacks' = {e \in topic_callbacks : e[1] # topic}
                /\ feed_callbacks' = {e \in feed_callbacks : e[1] # feed_key}
                /\ removed' = IF \E e \in feed_callbacks : e[1] = feed_key
                              THEN removed \cup {feed_key} ELSE removed
        /\ UNCHANGED <<_user, _connected, on_connect, on_disconnect, on_message, acked>>
        /\ UNCHANGED <<on_subscribe, on_unsubscribe, on_publish, subscriptions>>

\* a call that changes nothing of the client: it reports its transport calls,
\* for which the transport raises its events and keeps its subscription list
Reports(record, result) ==
    /\ Step
    /\ op' = record
    /\ raised' = result.raised
    /\ calls' = result.calls
    /\ invoked' = transport_events(TransportCalls(result.calls), 1)
    /\ subscriptions' = subscribed_after(subscriptions, result.calls)
    /\ Len(subscriptions') <= MaxSubscriptions
    /\ UNCHANGED <<_user, _connected, on_connect, on_disconnect, on_message,
                   topic_callbacks, acked, feed_callbacks>>
    /\ UNCHANGED <<on_subscribe, on_unsubscribe, on_publish, removed>>

Publish(feed_key, data, metadata, shared_user, is_group) ==
    Reports([name |-> "publish", feed_key |-> feed_key, data |-> data,
             metadata |-> metadata, shared_user |-> shared_user,
             is_group |-> is_group],
            publish(_user, feed_key, data, metadata, shared_user, is_group))

PublishMultiple(feeds_and_data, timeout, is_group) ==
    Reports([name |-> "publish_multiple", feeds_and_data |-> feeds_and_data,
             timeout |-> timeout, is_group |-> is_group],
            publish_multiple(_user, feeds_and_data, timeout, is_group))

Get(feed_key) ==
    Reports([name |-> "get", feed_key |-> feed_key], get(_user, feed_key))

Subscribe(feed_key, group_key, shared_user) ==
    Reports([name |-> "subscribe", feed_key |-> feed_key, group_key |-> group_key,
             shared_user |-> shared_user, subscribed |-> subscriptions],
            subscribe(_user, feed_key, group_key, shared_user))

Unsubscribe(feed_key, group_key, shared_user) ==
    Reports([name |-> "unsubscribe", feed_key |-> feed_key, group_key |-> group_key,
             shared_user |-> shared_user],
            unsubscribe(_user, feed_key, group_key, shared_user))

SubscribeToErrors ==
    Reports([name |-> "subscribe_to_errors"], subscribe_to_errors(_user))

SubscribeToTime(time_type) ==
    Reports([name |-> "subscribe_to_time", time_type |-> time_type],
            subscribe_to_time(time_type))

-----------------------------------------------------------------------------
(* IO_HTTP: the request helpers.  A response is a status code and the text  *)
(* of its body, given as an inbound payload is.                             *)

Response(status_code, body) == [status_code |-> status_code, body |-> body]

S_error == <<"e", "r", "r", "o", "r">>

\* AdafruitIO_RequestError(response): __init__ reads response.json()["error"]
new_RequestError(response) ==
    LET doc == json_loads(response.body)
        error == getitem(doc.value, S_error)
    IN  IF doc.raised # NoError THEN doc.raised
        ELSE IF error.raised # NoError THEN error.raised
        ELSE ErrorCode("AdafruitIO_RequestError", response.status_code)

\* IO_HTTP._handle_error: the exception it raises, NoError when it returns
_handle_error(response) ==
    IF response.status_code = 429 THEN Error("AdafruitIO_ThrottleError")
    ELSE IF response.status_code = 400 THEN new_RequestError(response)
    ELSE IF response.status_code >= 400 THEN new_RequestError(response)
    ELSE NoError

Nothing == [some |-> FALSE, value |-> JNum(0)]
Returned(value) == [some |-> TRUE, value |-> value]

\* with self._http.<method>(path, ...) as response:
\*     self._handle_error(response); json_data = response.json()
\* return json_data
request(response) ==
    LET err == _handle_error(response)
        json_data == json_loads(response.body)
    IN  IF err # NoError THEN [raised |-> err, returned |-> Nothing]
        ELSE IF json_data.raised # NoError
        THEN [raised |-> json_data.raised, returned |-> Nothing]
        ELSE [raised |-> NoError, returned |-> Returned(json_data.value)]

\* one request of the HTTP client: the call on self._http and its result
Request(name, method, path, response) ==
    LET result == request(response)
    IN  /\ Step
        /\ op' = [name |-> name, path |-> path, response |-> response,
                  returned |-> result.returned]
        /\ calls' = <<Call(method, path, NoVal)>>
        /\ raised' = result.raised
        /\ invoked' = <<>>
        /\ UNCHANGED <<_user, _connected, on_connect, on_disconnect, on_message,
                       topic_callbacks, acked, feed_callbacks>>
        /\ UNCHANGED <<on_subscribe, on_unsubscribe, on_publish, subscriptions, removed>>

\* IO_HTTP._post
_post(path, response) == Request("_post", "post", path, response)

\* IO_HTTP._get
_get(path, response) == Request("_get", "get", path, response)

\* IO_HTTP._delete
_delete(path, response) == Request("_delete", "delete", path, response)

-----------------------------------------------------------------------------
(* Inputs *)

\* highest connect return code the transport acknowledges with
MaxReturnCode == 2
\* longest list handed to publish_multiple
MaxPairs == 2

Users == {<<"u">>, <<"b", "o", "b">>}
\* the exceptions the transport raises: its own and an I/O failure
TransportErrors == {"MMQTTException", "OSError"}
ConnectOutcomes ==
    {Refused(e) : e \in TransportErrors} \cup {Acked(rc) : rc \in 0..MaxReturnCode}

\* the keys of the running client: two plain keys, a group.feed key, a bad key
RunKeys == {<<"k">>, <<"j">>, <<"a", "/", "b">>, <<"_">>}
RunTopics ==
    {feed_topic(_user, k) : k \in {k \in RunKeys : validate_feed_key(k) = NoError}}
    \cup {_user \o <<"/">> \o S_throttle,
          _user \o <<"/">> \o S_groups \o <<"/", "g">>,
          S_time \o <<"/", "s", "e", "c", "o", "n", "d", "s">>,
          _user \o <<"/", "e", "r", "r", "o", "r", "s">>}
GroupOf(members) == JObj(<< <<S_feeds, JObj(members)>> >>)
RunPayloads ==
    {Raw(<<"h", "i">>), GroupOf(<< <<<<"a">>, JNum(1)>>, <<<<"b">>, JNum(2)>> >>)}

\* the keys of the one-call specification: every short string, and long ones
KeyAlphabet == {"a", "/", ".", "_", "\n"}
OkKey == <<"o", "k">>
KeyInputs ==
    StringsUpTo(KeyAlphabet, MaxShortKey)
    \cup {OkKey, <<"Z", "-", "9">>,
          Repeat("a", MaxKeyLen), Repeat("a", MaxKeyLen + 1),
          Repeat("_", MaxKeyLen + 1)}
DataInputs == {IntVal(42), FloatVal(3, <<"1", "4">>), StrVal(<<"h", "i">>)}
MetadataInputs == {None, Some(<<"1", ",", "2", ",", "3">>)}
SharedInputs == {None, Some(<<"v">>)}
PairLists(k) ==
    UNION {[1..n -> {<<k, IntVal(1)>>, <<OkKey, IntVal(2)>>}] : n \in 0..MaxPairs}
OptKeys(k) == {None, Some(k), Some(OkKey)}

TimeTypes == {S_iso, S_seconds, S_millis, <<"I", "S", "O">>, <<"h", "o", "u", "r", "s">>}

\* owners of feeds a client is sent messages of: shared users, one named as
\* the service's time topics are; and single-segment keys of their feeds
Owners == {<<"v">>, <<"a", "d", "a">>, S_time}
OwnerKeys == {k \in StringsUpTo({"a", "-", "9"}, 2) : validate_feed_key(k) = NoError}

FeedNames == {<<"a">>, <<"b">>, <<"c">>}
FeedValues == {JNum(1), JNum(2), GroupOf(<< <<<<"b">>, JNum(7)>> >>)}
Members(n) ==
    {m \in [1..n -> FeedNames \X FeedValues] :
        \A i, j \in 1..n : i # j => m[i][1] # m[j][1]}
GroupPayloads ==
    {GroupOf(m) : m \in UNION {Members(n) : n \in 0..MaxFeeds}}
    \cup {Raw(<<"h", "i">>), JNum(5), JObj(<<>>),
          JObj(<< <<S_feeds, JStr(<<"a", "b">>)>> >>),
          JObj(<< <<S_feeds, JNum(1)>> >>)}
GroupTopic == _user \o <<"/">> \o S_groups \o <<"/", "g">>

-----------------------------------------------------------------------------
(* Specifications *)

\* IO_MQTT.__init__
Constructed ==
    /\ _user \in Users
    /\ _connected = FALSE
    /\ on_connect = "None"
    /\ on_disconnect = "None"
    /\ on_message = "None"
    /\ topic_callbacks = {}
    /\ op = [name |-> "__init__"]
    /\ raised = NoError
    /\ calls = <<>>
    /\ invoked = <<>>
    /\ acked = FALSE
    /\ feed_callbacks = {}
    /\ on_subscribe = "None"
    /\ on_unsubscribe = "None"
    /\ on_publish = "None"
    /\ subscriptions = <<>>
    /\ removed = {}

Init == Constructed /\ phase = "run"

Next ==
    \/ \E o \in ConnectOutcomes : Connect(o)
    \/ \E o \in ConnectOutcomes : Reconnect(o)
    \/ \E a \in BOOLEAN : Disconnect(a)
    \/ \E t \in RunTopics, p \in RunPayloads : LoopMessage(t, p)
    \/ \E rc \in 0..MaxReturnCode : LoopDisconnect(rc)
    \/ LoopError
    \/ \E h \in {"None", "connected", "failing"} : SetOnConnect(h)
    \/ \E h \in {"None", "disconnected", "failing"} : SetOnDisconnect(h)
    \/ \E h \in {"None", "message"} : SetOnMessage(h)
    \/ \E k \in RunKeys : AddFeedCallback(k, "on_feed")
    \/ \E k \in RunKeys : RemoveFeedCallback(k)
    \/ \E o \in {"answers"} \cup TransportErrors : IsConnected(o)

Spec == Init /\ [][Next]_vars

\* one call on a client whose on_message slot the caller has or has not set
CallInit ==
    /\ phase = "ready"
    /\ _user \in Users
    /\ _connected = FALSE
    /\ on_connect = "None"
    /\ on_disconnect = "None"
    /\ on_message \in {"None", "message"}
    /\ topic_callbacks = {}
    /\ op = [name |-> "__init__"]
    /\ raised = NoError
    /\ calls = <<>>
    /\ invoked = <<>>
    /\ acked = FALSE
    /\ feed_callbacks = {}
    /\ on_subscribe = "None"
    /\ on_unsubscribe = "None"
    /\ on_publish = "None"
    /\ subscriptions = <<>>
    /\ removed = {}

\* the call has not been made yet
Ready == phase = "ready"

CallNext ==
    \/ Ready /\ \E k \in KeyInputs, d \in DataInputs, m \in MetadataInputs,
                   s \in SharedInputs, g \in BOOLEAN : Publish(k, d, m, s, g)
    \/ Ready /\ \E k \in KeyInputs : \E l \in PairLists(k), g \in BOOLEAN :
                   PublishMultiple([list |-> TRUE, items |-> l], 3, g)
    \/ Ready /\ PublishMultiple([list |-> FALSE, items |-> <<>>], 3, FALSE)
    \/ Ready /\ \E k \in KeyInputs : Get(k)
    \/ Ready /\ \E k \in KeyInputs :
                   \E f \in OptKeys(k), g \in OptKeys(k), s \in SharedInputs :
                       Subscribe(f, g, s)
    \/ Ready /\ \E k \in KeyInputs :
                   \E f \in OptKeys(k), g \in OptKeys(k), s \in SharedInputs :
                       Unsubscribe(f, g, s)
    \/ Ready /\ \E k \in KeyInputs : AddFeedCallback(k, "on_feed")
    \/ Ready /\ \E k \in KeyInputs : RemoveFeedCallback(k)
    \/ Ready /\ \E k \in KeyInputs :
                   /\ validate_feed_key(k) = NoError
                   /\ LoopMessage(feed_topic(_user, k), Raw(<<"h", "i">>))
    \/ Ready /\ \E p \in GroupPayloads : LoopMessage(GroupTopic, p)
    \/ Ready /\ \E t \in TimeTypes : SubscribeToTime(t)
    \/ Ready /\ \E o \in Owners, k \in OwnerKeys :
                   LoopMessage(feed_topic(o, k), Raw(<<"h", "i">>))

CallSpec == CallInit /\ [][CallNext]_vars

\* the arguments of subscribe and unsubscribe on a running client: a feed
\* key that is valid or not, a group key, a shared user, each given or not
SubFeedKeys == {None, Some(<<"k">>), Some(<<"_">>)}
SubGroupKeys == {None, Some(<<"g">>)}
SubPayloads == {Raw(<<"h", "i">>), JNum(7)}

\* a client that subscribes and unsubscribes, registers and removes a
\* callback, and receives messages on the topics it is subscribed to
SubInit == Constructed /\ phase = "run"

SubNext ==
    \/ \E f \in SubFeedKeys, g \in SubGroupKeys, s \in SharedInputs : Subscribe(f, g, s)
    \/ \E f \in SubFeedKeys, g \in SubGroupKeys, s \in SharedInputs :
          Unsubscribe(f, g, s)
    \/ SubscribeToErrors
    \/ \E h \in {"None", "message"} : SetOnMessage(h)
    \/ AddFeedCallback(<<"k">>, "on_feed")
    \/ RemoveFeedCallback(<<"k">>)
    \/ \E i \in 1..Len(subscriptions), p \in SubPayloads :
          LoopMessage(subscriptions[i], p)

SubSpec == SubInit /\ [][SubNext]_vars

\* the feed of the client whose handler slots the caller keeps changing
EventKey == <<"k">>
EventPairs == {<<>>, << <<EventKey, IntVal(1)>> >>,
               << <<EventKey, IntVal(1)>>, <<OkKey, IntVal(2)>> >>}

\* a client on which every operation is called while the caller assigns,
\* replaces and clears the six handler slots
EventInit == Constructed /\ phase = "run" /\ _user = <<"u">>

EventNext ==
    \/ \E o \in ConnectOutcomes : Connect(o)
    \/ \E o \in ConnectOutcomes : Reconnect(o)
    \/ \E a \in BOOLEAN : Disconnect(a)
    \/ LoopMessage(feed_topic(_user, EventKey), Raw(<<"h", "i">>))
    \/ \E rc \in 0..MaxReturnCode : LoopDisconnect(rc)
    \/ LoopError
    \/ \E h \in {"None", "connected"} : SetOnConnect(h)
    \/ \E h \in {"None", "disconnected"} : SetOnDisconnect(h)
    \/ \E h \in {"None", "message"} : SetOnMessage(h)
    \/ \E h \in {"None", "subscribed"} : SetOnSubscribe(h)
    \/ \E h \in {"None", "unsubscribed"} : SetOnUnsubscribe(h)
    \/ \E h \in {"None", "published", "republished"} : SetOnPublish(h)
    \/ \E g \in BOOLEAN : Publish(EventKey, IntVal(42), None, None, g)
    \/ \E l \in EventPairs : PublishMultiple([list |-> TRUE, items |-> l], 3, FALSE)
    \/ Get(EventKey)
    \/ Subscribe(Some(EventKey), None, None)
    \/ Unsubscribe(Some(EventKey), None, None)
    \/ AddFeedCallback(EventKey, "on_feed")
    \/ RemoveFeedCallback(EventKey)

EventSpec == EventInit /\ [][EventNext]_vars

\* the responses of the service: statuses around 400 and 429, bodies that
\* are an error document, another document, or no JSON
StatusCodes == {200, 201, 399, 400, 401, 404, 428, 429, 430, 500, 503}
Bodies == {JObj(<< <<S_error, JStr(<<"n", "f">>)>> >>),
           JObj(<< <<<<"v">>, JNum(1)>> >>),
           JObj(<<>>), JNum(5), Raw(<<"<", "h", "t", "m", "l", ">">>)}
Responses == {Response(c, b) : c \in StatusCodes, b \in Bodies}
Paths == {<<"f">>, <<"g">>}

\* one request on an HTTP client
HttpInit == Constructed /\ phase = "ready"

HttpNext ==
    \/ Ready /\ \E p \in Paths, r \in Responses : _post(p, r)
    \/ Ready /\ \E p \in Paths, r \in Responses : _get(p, r)
    \/ Ready /\ \E p \in Paths, r \in Responses : _delete(p, r)

HttpSpec == HttpInit /\ [][HttpNext]_vars

-----------------------------------------------------------------------------
(* Connection state machine *)

\* C1: the connection flag is true only if a connect acknowledgement with
\* return code 0 has occurred and no disconnect acknowledgement and no failed
\* connect/reconnect has occurred since.
C1_FlagOnlyWhileAcknowledged == _connected => acked

\* C2: connect() whose acknowledgement reports a non-zero return code raises
\* AdafruitIO_MQTTError carrying the code, and leaves the flag false.
C2_NonZeroAckLeavesDisconnected ==
    (op.name = "connect" /\ op.ack /\ op.rc # 0)
        => /\ raised.type = "AdafruitIO_MQTTError"
           /\ raised.cause_code = op.rc
           /\ ~_connected

\* C3: disconnect() called while the flag is false makes no transport call
\* and changes no state.
C3_DisconnectWhenNotConnected ==
    [][(op'.name = "disconnect" /\ ~_connected)
          => /\ calls' = <<>>
             /\ raised' = NoError
             /\ invoked' = <<>>
             /\ UNCHANGED <<_user, _connected, on_connect, on_disconnect,
                            on_message, topic_callbacks>>]_vars

\* a disconnect() was called on a client that was not connected
C3_Witness ==
    /\ op.name = "disconnect"
    /\ ~op.was_connected
    /\ calls = <<>>
    /\ ~_connected

\* C13: connect() and reconnect() call the transport operation of the same
\* name exactly once; an exception the transport raises during the call
\* reaches the caller as AdafruitIO_MQTTError with that exception as cause.
C13_ConnectWrapsTransportError ==
    (op.name \in {"connect", "reconnect"})
        => /\ calls = <<Call(op.name, <<>>, NoVal)>>
           /\ ~op.ack => /\ raised.type = "AdafruitIO_MQTTError"
                          /\ raised.cause = op.exc
           /\ (op.ack /\ op.rc # 0)
                 => /\ raised.type = "AdafruitIO_MQTTError"
                    /\ raised.cause = "AdafruitIO_MQTTError"
                    /\ raised.cause_code = op.rc
           /\ raised.type \in {"None", "AdafruitIO_MQTTError"}

\* reconnect() was called while the transport raised OSError
C13_Witness ==
    /\ op.name = "reconnect"
    /\ ~op.ack
    /\ op.exc = "OSError"
    /\ raised.type = "AdafruitIO_MQTTError"
    /\ raised.cause = "OSError"
    /\ Len(calls) = 1

\* C14: is_connected returns true exactly when the connection flag is true,
\* except that it returns false, raising nothing, when the transport raises
\* MMQTTException.
C14_IsConnectedIsFlag ==
    (op.name = "is_connected")
        => /\ op.outcome = "MMQTTException" => (~op.returned /\ raised = NoError)
           /\ op.outcome = "answers" => (op.returned = _connected /\ raised = NoError)

\* C20: on a connect acknowledgement with return code 0 the flag becomes
\* true and the on_connect handler, if any, is invoked once with the client
\* as its only argument; on a non-zero return code it is not invoked.
C20_OnConnectAfterFlag ==
    (op.name \in {"connect", "reconnect"} /\ op.ack)
        => IF op.rc = 0
           THEN /\ _connected
                /\ invoked = IF on_connect = "None" THEN <<>>
                             ELSE <<InvokeClient(on_connect, "IO_MQTT")>>
           ELSE invoked = <<>>

\* a connect was acknowledged with 0 while an on_connect handler was set
C20_Witness ==
    /\ op.name = "connect"
    /\ op.ack
    /\ op.rc = 0
    /\ on_connect = "connected"
    /\ _connected
    /\ invoked = <<InvokeClient("connected", "IO_MQTT")>>

\* C21: on every disconnect acknowledgement of the transport, whatever its
\* return code and the state before, the flag becomes false and the
\* on_disconnect handler, if any, is invoked once with the client as its
\* only argument.
C21_OnDisconnectAfterFlag ==
    [][(\/ op'.name = "loop" /\ op'.event = "disconnect"
        \/ op'.name = "disconnect" /\ op'.acknowledged)
          => /\ ~_connected'
             /\ invoked' = IF on_disconnect = "None" THEN <<>>
                           ELSE <<InvokeClient(on_disconnect, "IO_MQTT")>>
             /\ on_disconnect' = on_disconnect]_vars

\* the transport ended the session of a connected client with a non-zero
\* return code while an on_disconnect handler was set
C21_Witness ==
    /\ op.name = "loop"
    /\ op.event = "disconnect"
    /\ op.rc # 0
    /\ on_disconnect = "disconnected"
    /\ ~_connected
    /\ invoked = <<InvokeClient("disconnected", "IO_MQTT")>>

\* C27: whenever connect() or reconnect() ends by raising
\* AdafruitIO_MQTTError, the connection flag is false after the call.
C27_FlagFalseAfterFailure ==
    (op.name \in {"connect", "reconnect"} /\ raised.type = "AdafruitIO_MQTTError")
        => ~_connected

\* C24: the flag changes only in a step in which the transport delivers an
\* acknowledgement: to True in a connect or reconnect acknowledged with return
\* code 0, to False in an acknowledged disconnect or a loop in which the
\* transport reports the end of the session.  Every other call, and every
\* assignment to a handler slot, leaves it as it was.
C24_FlagWrittenByAcknowledgements ==
    [][(_connected' # _connected)
          => \/ /\ op'.name \in {"connect", "reconnect"}
                /\ op'.ack /\ op'.rc = 0
                /\ _connected'
             \/ /\ op'.name = "disconnect"
                /\ op'.acknowledged
                /\ ~_connected'
             \/ /\ op'.name = "loop"
                /\ op'.event = "disconnect"
                /\ ~_connected']_vars

\* the transport raised in a reconnect on a connected client, and the flag
\* stayed set
C24_Witness ==
    /\ op.name = "reconnect"
    /\ ~op.ack
    /\ op.was_connected
    /\ _connected
    /\ raised.type = "AdafruitIO_MQTTError"

\* the handler of slot, called with (client, user_data, topic_i, number(i))
\* for each of the transport calls cs, or nothing when the slot is empty
EventsFor(slot, cs, number(_)) ==
    IF slot = "None" THEN <<>>
    ELSE [i \in 1..Len(cs) |->
            InvokeEvent(slot, "IO_MQTT", UserData, cs[i].topic, number(i))]

\* C25: every event runs the handler that is in its slot when the event
\* happens, whatever was assigned before.  A publish, subscribe or
\* unsubscribe of the transport calls the handler in on_publish,
\* on_subscribe or on_unsubscribe once, with (client, user_data, topic, pid
\* or qos); an acknowledgement of a connect with return code 0 calls the one
\* in on_connect and an end of session the one in on_disconnect, once, with
\* the client; a feed message the transport hands to the dispatcher calls
\* the one in on_message once.  An empty slot calls nothing.
C25_SlotsReadAtEachEvent ==
    [][/\ op'.name \in {"publish", "publish_multiple", "get"}
           => invoked' = EventsFor(on_publish, TransportCalls(calls'), LAMBDA i : i)
       /\ op'.name = "subscribe"
           => invoked' = EventsFor(on_subscribe, calls', LAMBDA i : 0)
       /\ op'.name = "unsubscribe"
           => invoked' = EventsFor(on_unsubscribe, calls', LAMBDA i : i)
       /\ (op'.name \in {"connect", "reconnect"} /\ op'.ack /\ op'.rc = 0)
           => invoked' = IF on_connect = "None" THEN <<>>
                         ELSE <<InvokeClient(on_connect, "IO_MQTT")>>
       /\ (\/ op'.name = "loop" /\ op'.event = "disconnect"
           \/ op'.name = "disconnect" /\ op'.acknowledged)
           => invoked' = IF on_disconnect = "None" THEN <<>>
                         ELSE <<InvokeClient(on_disconnect, "IO_MQTT")>>
       /\ (op'.name = "loop" /\ op'.event = "message"
              /\ ~Registered(topic_callbacks, op'.topic))
           => invoked' = IF on_message = "None" THEN <<>>
                         ELSE <<Invoke(on_message, "IO_MQTT", EventKey, op'.payload)>>
      ]_vars

\* a publish on a connected client ran the second of the handlers the caller
\* assigns to on_publish
C25_Witness ==
    /\ op.name = "publish"
    /\ on_publish = "republished"
    /\ _connected
    /\ invoked = <<InvokeEvent("republished", "IO_MQTT", UserData,
                               feed_topic(_user, EventKey), 1)>>

-----------------------------------------------------------------------------
(* Inbound dispatcher *)

\* the last operation was the delivery of one inbound message
Delivered == op.name = "loop" /\ op.event = "message"

\* C5 (amended): with on_message registered, a message on the feed topic of a
\* key with a per-feed callback invokes only that callback, and the transport
\* passes it its own client, the full topic and the payload; a message on the
\* feed topic of a key without a callback invokes only on_message.
C5_PerFeedCallbackOnly ==
    (Delivered /\ on_message # "None")
        => \A k \in RunKeys :
              (validate_feed_key(k) = NoError /\ op.topic = feed_topic(_user, k))
                  => IF \E e \in feed_callbacks : e[1] = k
                     THEN \E e \in feed_callbacks :
                            /\ e[1] = k
                            /\ invoked = <<Invoke(e[2], "MQTT", op.topic, op.payload)>>
                     ELSE /\ Len(invoked) = 1
                          /\ invoked[1].handler = on_message

\* C5 as claimed: the per-feed callback is invoked with (client, feed key k,
\* payload), the arguments the general handler gets.
C5_PerFeedCallbackGetsKey ==
    (Delivered /\ on_message # "None")
        => \A k \in RunKeys :
              (validate_feed_key(k) = NoError /\ op.topic = feed_topic(_user, k))
                  => IF \E e \in feed_callbacks : e[1] = k
                     THEN \E e \in feed_callbacks :
                            /\ e[1] = k
                            /\ invoked = <<Invoke(e[2], "IO_MQTT", k, op.payload)>>
                     ELSE /\ Len(invoked) = 1
                          /\ invoked[1].handler = on_message

\* a message for a key with a callback arrived while on_message was registered
C5_Witness ==
    /\ Delivered
    /\ on_message = "message"
    /\ op.topic = feed_topic(_user, <<"k">>)
    /\ <<<<"k">>, "on_feed">> \in feed_callbacks
    /\ Len(invoked) = 1
    /\ invoked[1].handler = "on_feed"

\* C9: an inbound message that reaches the dispatcher while no on_message
\* handler is registered raises ValueError, invokes no handler and leaves the
\* flag and the handler slots unchanged, whatever the topic.
C9_NoHandlerRaises ==
    [][(op'.name = "loop" /\ op'.event = "message" /\ on_message = "None"
          /\ ~Registered(topic_callbacks, op'.topic))
          => /\ raised'.type = "ValueError"
             /\ invoked' = <<>>
             /\ UNCHANGED <<_connected, on_connect, on_disconnect, on_message,
                            topic_callbacks>>]_vars

\* a throttle notice arrived while no on_message handler was registered
C9_Witness ==
    /\ Delivered
    /\ on_message = "None"
    /\ op.topic = _user \o <<"/">> \o S_throttle
    /\ raised.type = "ValueError"
    /\ invoked = <<>>

\* C10: with on_message registered, a message on the owner's throttle topic
\* raises AdafruitIO_ThrottleError and does not invoke on_message.
C10_ThrottleRaisesThrottleError ==
    (Delivered /\ on_message # "None" /\ op.topic = _user \o <<"/">> \o S_throttle)
        => /\ raised.type = "AdafruitIO_ThrottleError"
           /\ invoked = <<>>

\* C6: a group message whose payload is {"feeds": {name_1: v_1, ...}} invokes
\* on_message once per feed, with (client, name_i, v_i), in payload order.
C6_GroupFanOut ==
    (Delivered /\ on_message # "None" /\ op.topic = GroupTopic
       /\ op.payload.k = "obj" /\ Len(op.payload.o) = 1
       /\ op.payload.o[1][1] = S_feeds /\ op.payload.o[1][2].k = "obj")
        => LET members == op.payload.o[1][2].o
           IN  /\ raised = NoError
               /\ invoked = [i \in 1..Len(members) |->
                               Invoke(on_message, "IO_MQTT",
                                      members[i][1], members[i][2])]

\* C8: the feed topic the client builds for a key validate_feed_key accepts,
\* arriving inbound, is dispatched as a standard feed message whose channel
\* identity is that key.
C8_FeedTopicRoundTrip ==
    (Delivered /\ on_message # "None")
        => \A k \in KeyInputs :
              (validate_feed_key(k) = NoError /\ op.topic = feed_topic(_user, k))
                  => invoked = <<Invoke(on_message, "IO_MQTT", k, op.payload)>>

\* C28: an inbound message on the feed topic of any owner, one named "time"
\* included, with a valid single-segment key is dispatched as a standard
\* feed message: the handler gets the feed key as channel identity.
C28_OwnerDoesNotClassify ==
    (Delivered /\ on_message # "None")
        => \A o \in Owners \cup {_user} : \A k \in OwnerKeys :
              op.topic = feed_topic(o, k)
                  => /\ raised = NoError
                     /\ invoked = <<Invoke(on_message, "IO_MQTT", k, op.payload)>>

\* C22: once the callback added for key k has been removed, a message on the
\* feed topic of k that arrives while on_message is registered invokes
\* on_message, once, and not the removed callback; add_feed_callback and
\* remove_feed_callback hand the transport the same topic for the same key,
\* so the removal finds the entry and leaves none for that topic.
C22_RemovedFallsBack ==
    [][/\ (op'.name = "loop" /\ op'.event = "message" /\ on_message # "None")
           => \A k \in removed :
                 op'.topic = feed_topic(_user, k)
                     => /\ raised' = NoError
                        /\ Len(invoked') = 1
                        /\ invoked'[1].handler = on_message
                        /\ invoked'[1].client = "IO_MQTT"
                        /\ invoked'[1].payload = op'.payload
       /\ (op'.name = "add_feed_callback" /\ raised' = NoError)
           => calls' = <<Call("add_topic_callback",
                              feed_topic(_user, op'.feed_key), NoVal)>>
       /\ (op'.name = "remove_feed_callback"
              /\ \E e \in feed_callbacks : e[1] = op'.feed_key)
           => /\ raised' = NoError
              /\ calls' = <<Call("remove_topic_callback",
                                 feed_topic(_user, op'.feed_key), NoVal)>>
              /\ ~Registered(topic_callbacks', feed_topic(_user, op'.feed_key))
      ]_vars

\* a message for key k arrived after its callback was added and removed
C22_Witness ==
    /\ Delivered
    /\ on_message = "message"
    /\ op.topic = feed_topic(_user, <<"k">>)
    /\ <<"k">> \in removed
    /\ feed_callbacks = {}
    /\ invoked = <<Invoke("message", "IO_MQTT", <<"k">>, op.payload)>>

-----------------------------------------------------------------------------
(* Feed keys and the outbound publisher *)

\* a key the rules reject: too long, or not of the key grammar
InvalidKey(k) == Len(k) > MaxKeyLen \/ ~KeyGrammar(k)

\* the feed and group keys handed to the last operation
KeysGiven ==
    CASE op.name \in {"publish", "get", "add_feed_callback", "remove_feed_callback"}
           -> {op.feed_key}
      [] op.name \in {"subscribe", "unsubscribe"}
           -> {x.s : x \in {y \in {op.feed_key, op.group_key} : y.some}}
      [] op.name = "publish_multiple"
           -> {op.feeds_and_data.items[i][1] :
                  i \in 1..Len(op.feeds_and_data.items)}
      [] OTHER -> {}

\* C4: an operation handed an invalid feed or group key raises ValueError
\* (length) or TypeError (pattern) and makes no transport call.
C4_InvalidKeyBeforeTransport ==
    (\E k \in KeysGiven : InvalidKey(k))
        => /\ raised.type \in {"ValueError", "TypeError"}
           /\ TransportCalls(calls) = <<>>

\* C7: publish(key, value, metadata=m) with a valid key and an int, float or
\* str value raises no error and publishes str(value) + "," + m on the csv
\* sub-topic of the feed.
C7_CsvPublish ==
    (op.name = "publish" /\ validate_feed_key(op.feed_key) = NoError
       /\ op.metadata.some)
        => /\ raised = NoError
           /\ \E i \in 1..Len(calls) :
                 calls[i] = Call("publish", csv_topic(_user, op.feed_key),
                                 StrVal(str(op.data) \o <<",">> \o op.metadata.s))

\* C11: publish_multiple given pairs with valid keys issues one transport
\* publish per pair, in list order, with no delay before the first publish
\* and a delay of the given seconds between every two consecutive publishes.
C11_PacedInOrder ==
    (op.name = "publish_multiple" /\ op.feeds_and_data.list
       /\ \A i \in 1..Len(op.feeds_and_data.items) :
             ~InvalidKey(op.feeds_and_data.items[i][1]))
        => LET items == op.feeds_and_data.items
               pubs == TransportCalls(calls)
           IN  /\ raised = NoError
               /\ Len(pubs) = Len(items)
               /\ \A i \in 1..Len(pubs) :
                     pubs[i].op = "publish" /\ pubs[i].payload = items[i][2]
               /\ calls # <<>> => calls[1].op = "publish"
               /\ \A i \in 1..(Len(calls) - 1) :
                     (/\ calls[i].op = "publish"
                      /\ \E j \in (i + 1)..Len(calls) : calls[j].op = "publish")
                         => calls[i + 1] = Sleep(op.timeout)

\* C30: publish_multiple with n pairs delays only between consecutive
\* publishes: exactly n-1 delays in total, none after the last publish.
C30_NoTrailingDelay ==
    (op.name = "publish_multiple" /\ op.feeds_and_data.list /\ raised = NoError
       /\ \A i \in 1..Len(op.feeds_and_data.items) :
             ~InvalidKey(op.feeds_and_data.items[i][1]))
        => LET n == Len(op.feeds_and_data.items)
               delays == SelectSeq(calls, LAMBDA c : c.op = "sleep")
           IN  /\ Len(delays) = IF n = 0 THEN 0 ELSE n - 1
               /\ calls # <<>> => calls[Len(calls)].op = "publish"

-----------------------------------------------------------------------------
(* Topics handed to the transport *)

\* C12: subscribe_to_time issues exactly one transport subscribe, on
\* "time/ISO-8601" for "iso", "time/seconds" for "seconds" and "time/millis"
\* for "millis"; the topic has no owner prefix.
C12_TimeTopic ==
    (op.name = "subscribe_to_time" /\ op.time_type \in {S_iso, S_seconds, S_millis})
        => /\ raised = NoError
           /\ Len(calls) = 1
           /\ calls[1].op = "subscribe"
           /\ calls[1].topic =
                CASE op.time_type = S_iso ->
                       <<"t", "i", "m", "e", "/", "I", "S", "O", "-", "8", "6", "0", "1">>
                  [] op.time_type = S_seconds ->
                       <<"t", "i", "m", "e", "/", "s", "e", "c", "o", "n", "d", "s">>
                  [] op.time_type = S_millis ->
                       <<"t", "i", "m", "e", "/", "m", "i", "l", "l", "i", "s">>

\* subscribe_to_time("iso") was called and subscribed to the ISO-8601 topic
C12_Witness ==
    /\ op.name = "subscribe_to_time"
    /\ op.time_type = S_iso
    /\ Len(calls) = 1
    /\ calls[1].topic[6] = "I"

\* the topics the service documents for the keys and owners of the last call
LongTopics ==
    LET owners == {_user} \cup (IF op.name \in {"publish", "subscribe", "unsubscribe"}
                                   /\ op.shared_user.some
                                THEN {op.shared_user.s} ELSE {})
        feed(o, k) == o \o <<"/">> \o S_feeds \o <<"/">> \o k
    IN  UNION {{feed(o, k),
                feed(o, k) \o <<"/", "c", "s", "v">>,
                feed(o, k) \o <<"/", "g", "e", "t">>,
                o \o <<"/">> \o S_groups \o <<"/">> \o k} :
               o \in owners, k \in KeysGiven}

\* C15: every topic handed to the transport for a feed or a group is
\* "o/feeds/k" (with "/csv" or "/get" appended for metadata publishes and
\* get) or "o/groups/g".
C15_LiteralSubPaths ==
    (op.name \in {"publish", "publish_multiple", "get", "subscribe", "unsubscribe"})
        => \A i \in 1..Len(calls) :
              calls[i].op \in {"publish", "subscribe", "unsubscribe"}
                  => calls[i].topic \in LongTopics

\* C16: publish with a valid key, no metadata and at most one of is_group
\* and shared_user issues exactly one transport publish: to the group topic
\* with is_group, to the shared owner's feed topic with shared_user, and to
\* the client's own feed topic with neither.
C16_OneDestination ==
    (op.name = "publish" /\ ~InvalidKey(op.feed_key) /\ ~op.metadata.some
       /\ ~(op.is_group /\ op.shared_user.some))
        => /\ raised = NoError
           /\ calls = <<Call("publish",
                             IF op.is_group THEN group_topic(_user, op.feed_key)
                             ELSE IF op.shared_user.some
                             THEN feed_topic(op.shared_user.s, op.feed_key)
                             ELSE feed_topic(_user, op.feed_key),
                             op.data)>>

\* C17: subscribe and unsubscribe called with neither a feed key nor a group
\* key raise an error and make no transport call; called with valid keys
\* they make exactly one transport subscribe (resp. unsubscribe) call.
C17_SubscribeNeedsAKey ==
    (op.name \in {"subscribe", "unsubscribe"})
        => IF ~op.feed_key.some /\ ~op.group_key.some
           THEN raised # NoError /\ calls = <<>>
           ELSE (\A k \in KeysGiven : ~InvalidKey(k))
                   => /\ raised = NoError
                      /\ Len(calls) = 1
                      /\ calls[1].op = op.name

\* subscribe was called with a shared user but no key, and raised
C17_Witness ==
    /\ op.name = "subscribe"
    /\ ~op.feed_key.some
    /\ ~op.group_key.some
    /\ op.shared_user.some
    /\ raised.type = "AdafruitIO_MQTTError"
    /\ calls = <<>>

\* C18: get with a valid key issues exactly one transport publish, on the
\* "/get" sub-topic of the feed with a payload of one null byte, and no
\* subscribe and no other publish.
C18_GetPublishesNul ==
    (op.name = "get" /\ ~InvalidKey(op.feed_key))
        => /\ raised = NoError
           /\ Len(calls) = 1
           /\ calls[1].op = "publish"
           /\ calls[1].topic = feed_topic(_user, op.feed_key) \o <<"/", "g", "e", "t">>
           /\ calls[1].payload.t = "str"
           /\ calls[1].payload.s = <<NUL>>

\* get was called with a valid key and published once
C18_Witness ==
    /\ op.name = "get"
    /\ op.feed_key = OkKey
    /\ raised = NoError
    /\ Len(calls) = 1

\* how often topic t is in the transport's list of subscribed topics
Occurrences(list, t) == Cardinality({i \in 1..Len(list) : list[i] = t})

\* C29: when subscribe has issued a transport subscribe on topic t, an
\* unsubscribe with the same feed_key, group_key and shared_user issues one
\* transport unsubscribe, on t; t is the shared user's feed if a shared user
\* and a feed key are given, else the group if a group key is given, else
\* the own feed; and the transport is then subscribed to what it was
\* subscribed to before the subscribe.
C29_UnsubscribeUndoesSubscribe ==
    [][(/\ op.name = "subscribe"
        /\ Len(calls) = 1
        /\ calls[1].op = "subscribe"
        /\ op'.name = "unsubscribe"
        /\ op'.feed_key = op.feed_key
        /\ op'.group_key = op.group_key
        /\ op'.shared_user = op.shared_user)
          => /\ raised' = NoError
             /\ calls' = <<Call("unsubscribe", calls[1].topic, NoVal)>>
             /\ calls[1].topic =
                    IF op.shared_user.some /\ op.feed_key.some
                    THEN feed_topic(op.shared_user.s, op.feed_key.s)
                    ELSE IF op.group_key.some THEN group_topic(_user, op.group_key.s)
                    ELSE feed_topic(_user, op.feed_key.s)
             /\ \A i \in 1..Len(op.subscribed) :
                    Occurrences(subscriptions', op.subscribed[i])
                        = Occurrences(op.subscribed, op.subscribed[i])
             /\ Len(subscriptions') = Len(op.subscribed)]_vars

\* a feed key, a group key and a shared user were given to subscribe and then
\* to unsubscribe, while the transport was subscribed to another topic
C29_Witness ==
    /\ op.name = "unsubscribe"
    /\ op.feed_key.some /\ op.group_key.some /\ op.shared_user.some
    /\ calls = <<Call("unsubscribe", feed_topic(op.shared_user.s, op.feed_key.s), NoVal)>>
    /\ subscriptions = <<group_topic(_user, op.group_key.s)>>

\* C23: add_feed_callback and remove_feed_callback make no transport
\* subscribe or unsubscribe and leave the subscribed topics as they are;
\* subscribe and unsubscribe make no add_topic_callback or
\* remove_topic_callback and leave the per-feed callbacks as they are.
C23_CallbacksApartFromSubscriptions ==
    [][/\ op'.name \in {"add_feed_callback", "remove_feed_callback"}
           => /\ subscriptions' = subscriptions
              /\ \A i \in 1..Len(calls') :
                    calls'[i].op \notin {"subscribe", "unsubscribe"}
       /\ op'.name \in {"subscribe", "unsubscribe"}
           => /\ topic_callbacks' = topic_callbacks
              /\ \A i \in 1..Len(calls') :
                    calls'[i].op \notin {"add_topic_callback", "remove_topic_callback"}
      ]_vars

\* the callback for key k was registered while the client was subscribed to
\* nothing, and its feed was unsubscribed from while it stayed registered
C23_Witness ==
    /\ op.name = "unsubscribe"
    /\ calls = <<Call("unsubscribe", feed_topic(_user, <<"k">>), NoVal)>>
    /\ subscriptions = <<>>
    /\ topic_callbacks = {<<feed_topic(_user, <<"k">>), "on_feed">>}

\* C26: once subscribe_to_errors has subscribed to "{owner}/errors", a
\* message on that topic that arrives while on_message is registered invokes
\* on_message once, with the payload, and raises nothing.
C26_ErrorsReachOnMessage ==
    (/\ Delivered
     /\ on_message # "None"
     /\ op.topic = _user \o <<"/">> \o S_errors
     /\ \E i \in 1..Len(subscriptions) : subscriptions[i] = op.topic)
        => /\ raised = NoError
           /\ Len(invoked) = 1
           /\ invoked[1].handler = on_message
           /\ invoked[1].payload = op.payload

-----------------------------------------------------------------------------
(* HTTP status codes *)

\* C19: a request whose response has status 429 raises
\* AdafruitIO_ThrottleError, any other status from 400 up raises
\* AdafruitIO_RequestError, and a status below 400 raises nothing and returns
\* the JSON body; in the error cases nothing is returned.
C19_StatusToError ==
    (op.name \in {"_post", "_get", "_delete"})
        => LET status == op.response.status_code
           IN  IF status = 429
               THEN raised.type = "AdafruitIO_ThrottleError" /\ ~op.returned.some
               ELSE IF status >= 400
               THEN raised.type = "AdafruitIO_RequestError" /\ ~op.returned.some
               ELSE op.response.body.k # "raw"
                       => /\ raised = NoError
                          /\ op.returned = Returned(op.response.body)

====
